---- MODULE Spec2Model ----
(***************************************************************************)
(* Model of main.py of Anitabi-to-Tuxun: the catalog fetch loop, the       *)
(* concurrent panorama resolution joined by asyncio.gather, the set-based  *)
(* deduplication and the two exporters.                                    *)
(***************************************************************************)
EXTENDS Integers, Sequences, FiniteSets, TLC

\* ---------------------------------------------------------------- bounds
\* number of work IDs in BANGUMI_IDS
NumWorks == 2
\* longest "points" array of one catalog response
MaxElems == 2
\* most catalog points the catalog service holds over all work IDs
MaxPoints == 2

\* ------------------------------------------------------------ JSON values
\* a dictionary key that is absent
NoKey == -1
\* JSON null, as point.get("name") returns for an element without a name
NullName == "<null>"

BANGUMI_IDS == [i \in 1..NumWorks |-> i]

DEDUPLICATE_PANO == TRUE

None == [kind |-> "None"]

Raised == [kind |-> "raise"]

Pending == [kind |-> "pending"]

NoResponse == [kind |-> "none"]

\* elements of a catalog response's "points" array
CatalogElems ==
  { [name |-> "A", has_geo |-> TRUE, geo |-> <<35, 139>>],
    [name |-> NullName, has_geo |-> TRUE, geo |-> <<36, 140>>],
    [name |-> "C", has_geo |-> FALSE, geo |-> <<>>] }

SeqsUpTo(S, n) == UNION { [1..k -> S] : k \in 0..n }

\* what the catalog API can answer to one GET
CatalogResponses ==
  { [kind |-> "http_error", points |-> <<>>],
    [kind |-> "exception", points |-> <<>>],
    [kind |-> "json_no_points", points |-> <<>>],
    [kind |-> "json_points_null", points |-> <<>>] }
  \cup { [kind |-> "json", points |-> s] : s \in SeqsUpTo(CatalogElems, MaxElems) }

AnitabiPoint(name, lat, lng) == [name |-> name, lat |-> lat, lng |-> lng]

\* the for loop of fetch_and_parse_points: point["geo"] raises KeyError on
\* an element without geo, which leaves the loop with results as built so far
RECURSIVE ParseLoop(_, _)
ParseLoop(points, results) ==
  IF points = <<>> THEN [raised |-> FALSE, results |-> results]
  ELSE IF ~Head(points).has_geo THEN [raised |-> TRUE, results |-> results]
  ELSE ParseLoop(Tail(points),
                 Append(results, AnitabiPoint(Head(points).name,
                                              Head(points).geo[1],
                                              Head(points).geo[2])))

\* a fetch that throws its partial results away when the handler runs
fetch_and_parse_points_discard(resp) ==
  IF resp.kind = "json"
  THEN LET r == ParseLoop(resp.points, <<>>)
       IN IF r.raised THEN <<>> ELSE r.results
  ELSE <<>>

fetch_and_parse_points(resp) ==
  IF resp.kind = "json" THEN ParseLoop(resp.points, <<>>).results
  ELSE <<>>

\* --------------------------------------------------------- the resolver
StrId(v) == [t |-> "str", v |-> v]

\* a pano_id that is a JSON array: a value Python cannot hash
ListId(v) == [t |-> "list", v |-> v]

MissingId == [t |-> "missing", v |-> ""]

NoLocation == [t |-> "missing", lat |-> NoKey, lng |-> NoKey]

Location(lat, lng) == [t |-> "obj", lat |-> lat, lng |-> lng]

MetaJson(status, pano_id, location) ==
  [kind |-> "json", status |-> status, pano_id |-> pano_id, location |-> location]

\* what the metadata API can answer to one GET
PanoResponses ==
  { [kind |-> "transport", status |-> "", pano_id |-> MissingId, location |-> NoLocation],
    [kind |-> "http_error", status |-> "", pano_id |-> MissingId, location |-> NoLocation],
    [kind |-> "bad_json", status |-> "", pano_id |-> MissingId, location |-> NoLocation],
    MetaJson("ZERO_RESULTS", MissingId, NoLocation),
    MetaJson("OK", MissingId, Location(3501, 13901)),
    MetaJson("OK", StrId("P1"), NoLocation),
    MetaJson("OK", StrId("P1"), Location(NoKey, NoKey)),
    MetaJson("OK", StrId("P1"), Location(3501, 13901)),
    MetaJson("OK", StrId("P2"), Location(3602, NoKey)),
    MetaJson("OK", StrId(""), Location(3501, 13901)),
    MetaJson("OK", ListId("P1"), Location(3501, 13901)) }

GooglePanoPoint(lat, lng, pano_id) ==
  [kind |-> "pano", lat |-> lat, lng |-> lng, pano_id |-> pano_id]

\* location.get(key, default)
DictGet(val, default) == IF val = NoKey THEN default ELSE val

\* a resolver that ignores the corrected location of the response
MakePano_requested(data, p) == GooglePanoPoint(p.lat, p.lng, data.pano_id)

\* lines 117-126, once pano_id and location are known to be present
MakePano(data, p) ==
  GooglePanoPoint(DictGet(data.location.lat, p.lat),
                  DictGet(data.location.lng, p.lng),
                  data.pano_id)

\* the body of the try block of get_google_pano; Raised stands for an
\* exception leaving the block
pano_try(resp, p) ==
  IF resp.kind # "json" THEN Raised
  ELSE IF resp.status = "OK"
       THEN IF resp.pano_id.t = "missing" THEN Raised
            ELSE IF resp.location.t = "missing" THEN Raised
            ELSE MakePano(resp, p)
       ELSE None

\* a resolver without the except clause
get_google_pano_uncaught(resp, p) == pano_try(resp, p)

get_google_pano(resp, p) ==
  LET r == pano_try(resp, p) IN IF r.kind = "raise" THEN None ELSE r

\* ------------------------------------------------- the join and the dedup
Record(pt, gp) == [anitabi_point |-> pt, google_pano_point |-> gp]

\* "if pano_point:" - a GooglePanoPoint object is truthy, None is not
Truthy(r) == r.kind = "pano"

\* the zip loop of process_points_with_pano, lines 149-153
RECURSIVE ZipRecords(_, _)
ZipRecords(pts, results) ==
  IF pts = <<>> \/ results = <<>> THEN <<>>
  ELSE IF Truthy(Head(results))
       THEN <<Record(Head(pts), Head(results))>> \o ZipRecords(Tail(pts), Tail(results))
       ELSE ZipRecords(Tail(pts), Tail(results))

\* equality that compares every field, as a dataclass does by default
RecordEq_fields(a, b) == a = b

\* Record.__eq__ delegating to GooglePanoPoint.__eq__
RecordEq(a, b) == a.google_pano_point.pano_id = b.google_pano_point.pano_id

\* hash(self.pano_id) raises TypeError on a list
Hashable(r) == r.google_pano_point.pano_id.t = "str"

\* an insertion that lets the later of two equal Records win
SetAdd_replace(acc, r) ==
  IF \E i \in 1..Len(acc) : RecordEq(acc[i], r)
  THEN [i \in 1..Len(acc) |-> IF RecordEq(acc[i], r) THEN r ELSE acc[i]]
  ELSE Append(acc, r)

\* set insertion: an element equal to one already present is not stored
SetAdd(acc, r) ==
  IF \E i \in 1..Len(acc) : RecordEq(acc[i], r) THEN acc ELSE Append(acc, r)

\* set(records): the elements inserted in list order
RECURSIVE SetOf(_, _)
SetOf(recs, acc) ==
  IF recs = <<>> THEN acc ELSE SetOf(Tail(recs), SetAdd(acc, Head(recs)))

\* list(s): the iteration order of a set is whatever the hash table yields
ListOf(s) == { [i \in 1..Len(s) |-> s[f[i]]] : f \in Permutations(1..Len(s)) }

\* ------------------------------------------------------------ the exporters
PanoUrl(gp) ==
  <<"https://www.google.com/maps/@", gp.lat, ",", gp.lng,
    ",3a/data=!3m8!1e1!3m6!1s", gp.pano_id, "!2e10!3e12!6s">>

fieldnames ==
  <<"name", "anitabi_lat", "anitabi_lng", "pano_id", "pano_lat", "pano_lng",
    "google_maps_url">>

\* writeheader(): the row that maps every field name to itself
HeaderRow ==
  [name |-> fieldnames[1], anitabi_lat |-> fieldnames[2],
   anitabi_lng |-> fieldnames[3], pano_id |-> fieldnames[4],
   pano_lat |-> fieldnames[5], pano_lng |-> fieldnames[6],
   google_maps_url |-> fieldnames[7]]

\* the csv module writes None as the empty string
CsvStr(v) == IF v = NullName THEN "" ELSE v

CsvRow(r) ==
  [name |-> CsvStr(r.anitabi_point.name),
   anitabi_lat |-> r.anitabi_point.lat,
   anitabi_lng |-> r.anitabi_point.lng,
   pano_id |-> r.google_pano_point.pano_id,
   pano_lat |-> r.google_pano_point.lat,
   pano_lng |-> r.google_pano_point.lng,
   google_maps_url |-> PanoUrl(r.google_pano_point)]

Newline == [nl |-> TRUE, s |-> <<>>]

Text(s) == [nl |-> FALSE, s |-> s]

\* "".join(urls): the urls run together
Join_nosep(urls) == [i \in 1..Len(urls) |-> Text(urls[i])]

\* "\n".join(urls): the urls with a newline between neighbours
RECURSIVE Join(_)
Join(urls) ==
  IF urls = <<>> THEN <<>>
  ELSE IF Len(urls) = 1 THEN <<Text(urls[1])>>
  ELSE <<Text(urls[1]), Newline>> \o Join(Tail(urls))

\* ------------------------------------------------------------- the state
VARIABLES
  pc,            \* position of main: fetch, gather, dedup, csv, tuxun, done, crashed
  next_id,       \* index into BANGUMI_IDS of the next work ID to fetch
  response,      \* the catalog response of the latest fetch_and_parse_points call
  points,        \* main's local: what the latest fetch_and_parse_points returned
  points_list,   \* main's accumulated list of AnitabiPoints
  pano_resp,     \* per task: the metadata response it received, or Pending
  task_result,   \* per task: what get_google_pano returned, or Pending
  completed,     \* task indices in the order the tasks finished
  pano_results,  \* what asyncio.gather returned
  final_data,    \* what process_points_with_pano returned
  records,       \* main's records, after the deduplication
  csvfile,       \* rows written to output.csv
  tuxun_urls,    \* main's list of viewer urls
  tuxun_file,    \* text written to tuxun_output.txt
  opened         \* the output files opened so far

vars == <<pc, next_id, response, points, points_list, pano_resp, task_result,
          completed, pano_results, final_data, records, csvfile, tuxun_urls,
          tuxun_file, opened>>

CSV_OUTPUT_FILE == "output.csv"

TUXUN_OUTPUT_FILE == "tuxun_output.txt"

Init ==
  /\ pc = "fetch"
  /\ next_id = 1
  /\ response = NoResponse
  /\ points = <<>>
  /\ points_list = <<>>
  /\ pano_resp = <<>>
  /\ task_result = <<>>
  /\ completed = <<>>
  /\ pano_results = <<>>
  /\ final_data = <<>>
  /\ records = <<>>
  /\ csvfile = <<>>
  /\ tuxun_urls = <<>>
  /\ tuxun_file = <<>>
  /\ opened = {}

\* one pass of the loop over BANGUMI_IDS, lines 170-173
Fetch(resp) ==
  /\ pc = "fetch"
  /\ next_id <= Len(BANGUMI_IDS)
  /\ Len(points_list) + Len(fetch_and_parse_points(resp)) <= MaxPoints
  /\ response' = resp
  /\ points' = fetch_and_parse_points(resp)
  /\ points_list' = points_list \o points'
  /\ next_id' = next_id + 1
  /\ UNCHANGED <<pc, pano_resp, task_result, completed, pano_results,
                 final_data, records, csvfile, tuxun_urls, tuxun_file, opened>>

\* process_points_with_pano up to the await: one task per point, lines 137-146
Submit ==
  /\ pc = "fetch"
  /\ next_id > Len(BANGUMI_IDS)
  /\ pano_resp' = [i \in 1..Len(points_list) |-> Pending]
  /\ task_result' = [i \in 1..Len(points_list) |-> Pending]
  /\ completed' = <<>>
  /\ response' = NoResponse
  /\ pc' = "gather"
  /\ UNCHANGED <<next_id, points, points_list, pano_results, final_data,
                 records, csvfile, tuxun_urls, tuxun_file, opened>>

\* task i runs get_google_pano to its return; an exception leaving the task
\* is re-raised by gather into main
Resolve(i, resp) ==
  /\ pc = "gather"
  /\ i \in 1..Len(points_list)
  /\ task_result[i].kind = "pending"
  /\ LET r == get_google_pano(resp, points_list[i])
     IN /\ pano_resp' = [pano_resp EXCEPT ![i] = resp]
        /\ task_result' = [task_result EXCEPT ![i] = r]
        /\ completed' = Append(completed, i)
        /\ pc' = IF r.kind = "raise" THEN "crashed" ELSE pc
  /\ UNCHANGED <<next_id, response, points, points_list, pano_results,
                 final_data, records, csvfile, tuxun_urls, tuxun_file, opened>>

\* a join that returns as soon as one task has finished
gather_ready_first == Len(completed) >= 1 \/ Len(points_list) = 0

\* "await asyncio.gather(*tasks)" returns when every task has finished
gather_ready == \A i \in 1..Len(points_list) : task_result[i].kind # "pending"

\* results in the order the tasks finished
gather_as_completed == [k \in 1..Len(completed) |-> task_result[completed[k]]]

\* asyncio.gather returns the results in the order the tasks were passed
gather == [i \in 1..Len(points_list) |-> task_result[i]]

\* the rest of process_points_with_pano and its return into main, 146-175
Join_ ==
  /\ pc = "gather"
  /\ gather_ready
  /\ pano_results' = gather
  /\ final_data' = ZipRecords(points_list, gather)
  /\ records' = ZipRecords(points_list, gather)
  /\ pc' = "dedup"
  /\ UNCHANGED <<next_id, response, points, points_list, pano_resp,
                 task_result, completed, csvfile, tuxun_urls, tuxun_file, opened>>

\* lines 178-181; an unhashable pano_id raises TypeError out of main
Dedup ==
  /\ pc = "dedup"
  /\ IF ~DEDUPLICATE_PANO
     THEN pc' = "csv" /\ records' = records
     ELSE IF \E i \in 1..Len(records) : ~Hashable(records[i])
          THEN pc' = "crashed" /\ records' = records
          ELSE pc' = "csv" /\ records' \in ListOf(SetOf(records, <<>>))
  /\ UNCHANGED <<next_id, response, points, points_list, pano_resp,
                 task_result, completed, pano_results, final_data, csvfile,
                 tuxun_urls, tuxun_file, opened>>

\* the first with block, lines 184-200
WriteCsv ==
  /\ pc = "csv"
  /\ opened' = opened \cup {CSV_OUTPUT_FILE}
  /\ csvfile' = <<HeaderRow>> \o [i \in 1..Len(records) |-> CsvRow(records[i])]
  /\ tuxun_urls' = [i \in 1..Len(records) |-> PanoUrl(records[i].google_pano_point)]
  /\ pc' = "tuxun"
  /\ UNCHANGED <<next_id, response, points, points_list, pano_resp,
                 task_result, completed, pano_results, final_data, records,
                 tuxun_file>>

\* the second with block, lines 202-203
WriteTuxun ==
  /\ pc = "tuxun"
  /\ opened' = opened \cup {TUXUN_OUTPUT_FILE}
  /\ tuxun_file' = Join(tuxun_urls)
  /\ pc' = "done"
  /\ UNCHANGED <<next_id, response, points, points_list, pano_resp,
                 task_result, completed, pano_results, final_data, records,
                 csvfile, tuxun_urls>>

Next ==
  \/ \E resp \in CatalogResponses : Fetch(resp)
  \/ Submit
  \/ \E i \in 1..Len(points_list), resp \in PanoResponses : Resolve(i, resp)
  \/ Join_
  \/ Dedup
  \/ WriteCsv
  \/ WriteTuxun

Spec == Init /\ [][Next]_vars

\* the event loop runs every step that is ready, and every request ends
\* within its 10 second timeout
FairSpec == Spec /\ WF_vars(Next)

\* ------------------------------------------------------------ properties
Joined == pc \in {"dedup", "csv", "tuxun", "done"}

Deduped == pc \in {"csv", "tuxun", "done"}

StrictlyIncreasing(f) ==
  \A a, b \in DOMAIN f : a < b => f[a] < f[b]

\* C1: after the join, final_data is exactly the catalog points whose own
\* task returned a panorama, each paired with the result of its own task,
\* in the order of points_list, whatever the order the tasks finished in.
C1_PairedByPosition ==
  Joined =>
    \E f \in [1..Len(final_data) -> 1..Len(points_list)] :
      /\ StrictlyIncreasing(f)
      /\ {f[k] : k \in 1..Len(final_data)} =
           {i \in 1..Len(points_list) : task_result[i].kind = "pano"}
      /\ \A k \in 1..Len(final_data) :
           /\ final_data[k].anitabi_point = points_list[f[k]]
           /\ final_data[k].google_pano_point = task_result[f[k]]
           /\ task_result[f[k]] = get_google_pano(pano_resp[f[k]], points_list[f[k]])

C1_Witness ==
  /\ Joined
  /\ Len(points_list) = 2
  /\ completed = <<2, 1>>
  /\ task_result[1].kind = "None"
  /\ task_result[2].kind = "pano"
  /\ points_list[1] # points_list[2]
  /\ Len(final_data) = 1

\* C2: every Record has a non-empty panorama identifier that a status "OK"
\* response returned for that Record's catalog point.
C2_NonEmptyResolvedId ==
  \A k \in 1..Len(final_data) :
    /\ final_data[k].google_pano_point.pano_id.v # ""
    /\ \E i \in 1..Len(points_list) :
         /\ points_list[i] = final_data[k].anitabi_point
         /\ pano_resp[i].kind = "json"
         /\ pano_resp[i].status = "OK"
         /\ pano_resp[i].pano_id = final_data[k].google_pano_point.pano_id

LacksGeo(resp) ==
  /\ resp.kind = "json"
  /\ \E i \in 1..Len(resp.points) : ~resp.points[i].has_geo

FirstLackingGeo(resp) ==
  CHOOSE i \in 1..Len(resp.points) :
    /\ ~resp.points[i].has_geo
    /\ \A j \in 1..(i - 1) : resp.points[j].has_geo

PanoIds(recs) == {recs[i].google_pano_point.pano_id : i \in 1..Len(recs)}

OnePerPanoId(input, output) ==
  /\ PanoIds(output) = PanoIds(input)
  /\ \A a, b \in 1..Len(output) :
       output[a].google_pano_point.pano_id = output[b].google_pano_point.pano_id
         => a = b
  /\ \A a \in 1..Len(output) : \E b \in 1..Len(input) : output[a] = input[b]
  /\ (Cardinality(PanoIds(input)) = Len(input) => Len(output) = Len(input))

SameRecords(a, b) ==
  /\ Len(a) = Len(b)
  /\ {a[i] : i \in 1..Len(a)} = {b[i] : i \in 1..Len(b)}

\* C4 as stated: deduplication leaves one Record per distinct panoramaId and
\* deduplicating the deduplicated list again returns that very list.
C4_DedupIdempotentList ==
  Deduped =>
    /\ OnePerPanoId(final_data, records)
    /\ \A again \in ListOf(SetOf(records, <<>>)) : again = records

\* C4 as amended: deduplication leaves one Record per distinct panoramaId and
\* deduplicating the deduplicated list again returns the same Records, in
\* some order.
C4_DedupIdempotentSet ==
  Deduped =>
    /\ OnePerPanoId(final_data, records)
    /\ \A again \in ListOf(SetOf(records, <<>>)) : SameRecords(again, records)

C4_Witness ==
  /\ Deduped
  /\ Len(final_data) = 2
  /\ final_data[1] # final_data[2]
  /\ Len(records) = 1

IsFailure(resp) ==
  \/ resp.kind \in {"transport", "http_error", "bad_json"}
  \/ resp.kind = "json" /\ resp.status # "OK"
  \/ resp.kind = "json" /\ resp.status = "OK" /\ resp.pano_id.t = "missing"

\* C5: no task ends with an exception; a failed request or a response whose
\* status is not "OK" gives None, and the other tasks still run.
C5_NeverRaises ==
  /\ \A i \in 1..Len(task_result) :
       /\ task_result[i].kind # "raise"
       /\ (pano_resp[i].kind # "pending" /\ IsFailure(pano_resp[i]))
            => task_result[i].kind = "None"
  /\ (pc = "crashed" => \A i \in 1..Len(task_result) : task_result[i].kind # "pending")

C5_Witness ==
  /\ Len(task_result) = 2
  /\ completed = <<1, 2>>
  /\ pano_resp[1].kind = "transport"
  /\ task_result[1].kind = "None"
  /\ task_result[2].kind = "pano"

\* C6: whatever the catalog and the resolver answer, the run fetches every
\* work ID, resolves every catalog point and in the end has written both
\* output files.
C6_AlwaysExports ==
  <>( /\ pc = "done"
      /\ next_id > Len(BANGUMI_IDS)
      /\ \A i \in 1..Len(points_list) : task_result[i].kind # "pending"
      /\ opened = {CSV_OUTPUT_FILE, TUXUN_OUTPUT_FILE} )

SamePano(a, b) ==
  /\ a.kind = "pano"
  /\ b.kind = "pano"
  /\ a.pano_id = b.pano_id

\* C7: after the deduplication every retained Record is the one built from
\* the first point, in points_list order, whose task returned that
\* panoramaId, whatever the order the tasks finished in.
C7_FirstSubmittedKept ==
  (Deduped /\ DEDUPLICATE_PANO) =>
    \A k \in 1..Len(records) :
      \E i \in 1..Len(points_list) :
        /\ task_result[i].kind = "pano"
        /\ records[k].anitabi_point = points_list[i]
        /\ records[k].google_pano_point = task_result[i]
        /\ \A j \in 1..(i - 1) : ~SamePano(task_result[j], task_result[i])

C7_Witness ==
  /\ Deduped
  /\ Len(points_list) = 2
  /\ points_list[1] # points_list[2]
  /\ completed = <<2, 1>>
  /\ SamePano(task_result[1], task_result[2])
  /\ task_result[1] # task_result[2]
  /\ Len(records) = 1
  /\ records[1].anitabi_point = points_list[1]

OkWithId(resp) ==
  /\ resp.kind = "json"
  /\ resp.status = "OK"
  /\ resp.pano_id.t # "missing"

ExpectedLat(resp, p) ==
  IF resp.location.t = "obj" /\ resp.location.lat # NoKey
  THEN resp.location.lat ELSE p.lat

ExpectedLng(resp, p) ==
  IF resp.location.t = "obj" /\ resp.location.lng # NoKey
  THEN resp.location.lng ELSE p.lng

CarriesResponse(i) ==
  /\ task_result[i].kind = "pano"
  /\ task_result[i].pano_id = pano_resp[i].pano_id
  /\ task_result[i].lat = ExpectedLat(pano_resp[i], points_list[i])
  /\ task_result[i].lng = ExpectedLng(pano_resp[i], points_list[i])

\* C8 as stated: every status "OK" response with a pano_id gives a
\* PanoramaPoint with that pano_id, at the response's location where it has
\* one and at the requested coordinates otherwise, also when the response
\* has no location at all.
C8_OkAlwaysYieldsPoint ==
  \A i \in 1..Len(task_result) :
    (pano_resp[i].kind # "pending" /\ OkWithId(pano_resp[i])) => CarriesResponse(i)

\* C8 as amended: a status "OK" response with a pano_id and a location
\* object gives a PanoramaPoint with that pano_id, whose lat and lng are
\* those of the location where it has them and the requested ones otherwise;
\* a status "OK" response without a location gives None.
C8_OkWithLocationYieldsPoint ==
  \A i \in 1..Len(task_result) :
    (pano_resp[i].kind # "pending" /\ OkWithId(pano_resp[i])) =>
      IF pano_resp[i].location.t = "obj"
      THEN CarriesResponse(i)
      ELSE task_result[i].kind = "None"

C8_Witness ==
  \E i \in 1..Len(task_result) :
    /\ pano_resp[i].kind # "pending"
    /\ OkWithId(pano_resp[i])
    /\ pano_resp[i].location.t = "obj"
    /\ pano_resp[i].location.lat # NoKey
    /\ pano_resp[i].location.lng = NoKey
    /\ task_result[i].kind = "pano"
    /\ task_result[i].lat = pano_resp[i].location.lat
    /\ task_result[i].lng = points_list[i].lng

\* C9: no Record is paired and no output file is opened before every work
\* ID has been fetched and every submitted task has finished, each exactly
\* once.
C9_Barrier ==
  (Joined \/ opened # {} \/ final_data # <<>> \/ pano_results # <<>>) =>
    /\ next_id > Len(BANGUMI_IDS)
    /\ Len(task_result) = Len(points_list)
    /\ \A i \in 1..Len(points_list) : task_result[i].kind # "pending"
    /\ Len(completed) = Len(points_list)
    /\ {completed[k] : k \in 1..Len(completed)} = 1..Len(points_list)

C9_Witness ==
  /\ pc = "done"
  /\ opened = {CSV_OUTPUT_FILE, TUXUN_OUTPUT_FILE}
  /\ Len(points_list) = 2
  /\ completed = <<2, 1>>
  /\ task_result[2].kind = "None"
  /\ task_result[1].kind = "pano"

\* the lines of a text, as a reader of the file sees them
RECURSIVE SplitLines(_, _, _)
SplitLines(text, cur, acc) ==
  IF text = <<>> THEN (IF cur = <<>> THEN acc ELSE Append(acc, cur))
  ELSE IF Head(text).nl THEN SplitLines(Tail(text), <<>>, Append(acc, cur))
  ELSE SplitLines(Tail(text), Append(cur, Head(text).s), acc)

Lines(text) == SplitLines(text, <<>>, <<>>)

\* C10: after a run the CSV is the header row followed by one row per
\* Record of the final list, in its order, and the URL list has one line per
\* Record, the i-th line being the google_maps_url of the i-th CSV row; with
\* no Record the CSV is the header alone and the URL list is empty.
C10_ExportsMatchRecords ==
  pc = "done" =>
    /\ Len(csvfile) = Len(records) + 1
    /\ csvfile[1] = HeaderRow
    /\ Len(Lines(tuxun_file)) = Len(records)
    /\ \A i \in 1..Len(records) :
         /\ csvfile[i + 1].name =
              (IF records[i].anitabi_point.name = NullName THEN ""
               ELSE records[i].anitabi_point.name)
         /\ csvfile[i + 1].anitabi_lat = records[i].anitabi_point.lat
         /\ csvfile[i + 1].anitabi_lng = records[i].anitabi_point.lng
         /\ csvfile[i + 1].pano_id = records[i].google_pano_point.pano_id
         /\ csvfile[i + 1].pano_lat = records[i].google_pano_point.lat
         /\ csvfile[i + 1].pano_lng = records[i].google_pano_point.lng
         /\ csvfile[i + 1].google_maps_url = PanoUrl(records[i].google_pano_point)
         /\ Lines(tuxun_file)[i] = <<csvfile[i + 1].google_maps_url>>
    /\ (records = <<>> => csvfile = <<HeaderRow>> /\ tuxun_file = <<>>)

C10_Witness ==
  /\ pc = "done"
  /\ Len(records) = 2
  /\ Len(csvfile) = 3
  /\ records[1].anitabi_point.name = NullName
  /\ Len(Lines(tuxun_file)) = 2

====
